---- MODULE Spec2Model ----
(***************************************************************************)
(* A model of depup (src/src/vcs.py, src/src/depup.py): the Vcs wrapper    *)
(* around the git and hg command line tools, the cross-repository commit   *)
(* matching, and the DepUpdate driver.                                     *)
(*                                                                         *)
(* One behaviour is one process: the state after Init is a freshly started *)
(* interpreter in an environment (two repositories holding the history of  *)
(* one dependency, a few directories), and every action is one call of a   *)
(* method of the program, modelled whole.  Subprocess failures (a tool     *)
(* exiting non-zero) are inputs of the actions.                            *)
(***************************************************************************)
EXTENDS Integers, Sequences, FiniteSets, TLC

\* Commits per repository; they are numbered 0 .. MaxCommits - 1.
MaxCommits == 3

\* Steps made with one working copy (writes and undo_changes calls).
MaxSteps == 3

\* Entries of a log whose text is parsed character by character.
MaxLines == 2

Commits == 0 .. MaxCommits - 1

\* The order in which Vcs.factory tries the classes: [Git, Mercurial].
Classes == <<"git", "hg">>

Kinds == {"git", "hg"}

\* Git._other_cls / Mercurial._other_cls
OtherCls(k) == IF k = "git" THEN "hg" ELSE "git"

\* Git.EXECUTABLE / Mercurial.EXECUTABLE
Executable(k) == k

\* Git.VCS_REQUIREMENT / Mercurial.VCS_REQUIREMENT
VcsRequirement(k) == IF k = "git" THEN ".git" ELSE ".hg"

\* Git.UPDATE_LOCAL_HISTORY / Mercurial.UPDATE_LOCAL_HISTORY
UpdateLocalHistory(k) == IF k = "git" THEN "fetch" ELSE "pull"

\* Git.REVISION_URL / Mercurial.REVISION_URL, formatted
RevisionUrl(k, repository, revision) ==
    [site |-> IF k = "git" THEN "https://www.github.com/adblockplus/"
                           ELSE "https://hg.adblockplus.org/",
     repository |-> repository,
     revision |-> revision]

----------------------------------------------------------------------------
(* Python helpers *)

\* list(reversed(s))
Reversed(s) == [i \in 1 .. Len(s) |-> s[Len(s) + 1 - i]]

\* DropFirst with the slice forgotten
KeepFirst(s) == s

\* s[1:]; the slice of an empty list is the empty list
DropFirst(s) == IF Len(s) = 0 THEN << >> ELSE Tail(s)

Max(S) == CHOOSE x \in S : \A y \in S : y <= x

Min(S) == CHOOSE x \in S : \A y \in S : x <= y

RECURSIVE Ascending(_)
\* The elements of a finite set of integers, smallest first.
Ascending(S) == IF S = {} THEN << >> ELSE <<Min(S)>> \o Ascending(S \ {Min(S)})

\* The elements of a finite set of integers, largest first.
Descending(S) == Reversed(Ascending(S))

----------------------------------------------------------------------------
(* The environment: directories *)

GitRepoDir == [source |-> "/work/git", repository |-> "testrepo"]
HgRepoDir == [source |-> "/work/hg", repository |-> "testrepo"]
GitMirrorDir == [source |-> "/mirrors", repository |-> "testrepo.git"]
BothDir == [source |-> "/work", repository |-> "both"]
PlainDir == [source |-> "/work", repository |-> "plain"]
RemoteUrl == [source |-> "https://example.org", repository |-> "testrepo"]
RootDir == [source |-> "/work", repository |-> "project"]
TmpRoot == [source |-> "/", repository |-> "tmp"]

\* The names a directory holds directly under it; RemoteUrl is no local path.
Entries(loc) ==
    CASE loc = GitRepoDir -> {".git"}
      [] loc = GitMirrorDir -> {".git"}
      [] loc = HgRepoDir -> {".hg"}
      [] loc = RootDir -> {".hg", "dependencies", "ensure_dependencies.py"}
      [] loc = BothDir -> {".git", ".hg"}
      [] OTHER -> {}

LocalDirs == {GitRepoDir, HgRepoDir, GitMirrorDir, BothDir, PlainDir, RootDir}

Locations == LocalDirs \cup {RemoteUrl}

\* A path: a location, or the scratch directory number tmp under TmpRoot.
Path(loc) == [loc |-> loc, tmp |-> 0]

TmpPath(n) == [loc |-> TmpRoot, tmp |-> n]

NoHandle == [kind |-> "none", source |-> "", repository |-> "",
             cwd |-> Path(TmpRoot), clean_up |-> FALSE]

VARIABLES
    branch,     \* branch[k]: the parent of the newest commit in the k repository
    defect,     \* where the two repositories' commit metadata differ
    tmpdirs,    \* the scratch directories (mkdtemp) that exist on disk
    dirty,      \* the directories whose working copy has uncommitted changes
    pc,         \* the call that returned last
    exc,        \* the exception it raised, or "none"
    vcs,        \* the handle Vcs.factory returned
    changes,    \* the change list held by the caller
    call        \* what the last call was given and did

vars == <<branch, defect, tmpdirs, dirty, pc, exc, vcs, changes, call>>

\* os.path.exists(path)
PathExists(path, dirs) ==
    IF path.tmp > 0 THEN path.tmp \in dirs ELSE path.loc \in LocalDirs

----------------------------------------------------------------------------
(* The environment: the two repositories and the tools *)

\* The history of each repository is a tree: commit 0 is the root, each
\* commit but the newest follows its predecessor, and the newest commit
\* follows commit branch[k] (a line when branch[k] = MaxCommits - 2).
Parent(k, c) ==
    IF c = 0 THEN -1
    ELSE IF c = MaxCommits - 1 THEN branch[k] ELSE c - 1

RECURSIVE Ancestors(_, _)
\* c and the commits it descends from
Ancestors(k, c) == IF c < 0 THEN {} ELSE {c} \cup Ancestors(k, Parent(k, c))

\* Where git's HEAD and hg's bookmark 'master' are: the newest commit.
Master == MaxCommits - 1

AuthorOf(c) == IF c % 2 = 0 THEN "ann" ELSE "bob"

MessageOf(c) == IF c = 0 THEN "Noissue - initial" ELSE "Issue 1 - change"

NoDefect == [type |-> "none", kind |-> "git", at |-> 0]

Defects ==
    {NoDefect} \cup
    [type : {"shifted", "dup"}, kind : Kinds, at : 1 .. MaxCommits - 1] \cup
    [type : {"recommitted"}, kind : {"git"}, at : 1 .. MaxCommits - 1]

\* Author, date and first line of the message of commit c in the k
\* repository.  Commit c is the same logical commit in both, unless the
\* defect says that the k repository has it with another date ("shifted")
\* or with the metadata of the commit before it ("dup").  A "recommitted"
\* git commit has its metadata, and a committer date after its author date.
MetaIn(k, c, d) ==
    LET own(x) == [author |-> AuthorOf(x), date |-> x, message |-> MessageOf(x)]
    IN  IF d.type # "none" /\ d.kind = k /\ d.at = c
        THEN IF d.type = "shifted"
             THEN [own(c) EXCEPT !.date = c + MaxCommits]
             ELSE IF d.type = "dup" THEN own(c - 1) ELSE own(c)
        ELSE own(c)

Meta(k, c) == MetaIn(k, c, defect)

\* The date a query by date compares with: hg log -d the date of the
\* changeset, git log --before/--after the committer date of the commit.
QueriedDate(k, c) ==
    IF k = "git" /\ defect.type = "recommitted" /\ defect.at = c
    THEN Meta(k, c).date + MaxCommits
    ELSE Meta(k, c).date

\* A short hash as the tools print it, {node|short} or %h: one token of text.
\* Text is a sequence of tokens.
Hash(k, c) == <<[vcs |-> k, rev |-> c]>>

\* The text 'NO MIRROR'
NoMirror == <<[vcs |-> "NO MIRROR", rev |-> -1]>>

\* One line of log output under LOG_TEMLATE: hash, author, date, message.
LogLine(k, c) ==
    <<Hash(k, c), Meta(k, c).author, Meta(k, c).date, Meta(k, c).message>>

\* hg log -r 'a::b': the changesets that descend from a and that b descends
\* from, both included, in ascending revision order.
HgLogRange(a, b) ==
    LET S == {c \in Ancestors("hg", b) : a \in Ancestors("hg", c)}
        order == Ascending(S)
    IN  [i \in 1 .. Len(order) |-> LogLine("hg", order[i])]

\* git log a..b: the commits reachable from b and not from a, newest first.
GitLogRange(a, b) ==
    LET S == Ancestors("git", b) \ Ancestors("git", a)
        order == Descending(S)
    IN  [i \in 1 .. Len(order) |-> LogLine("git", order[i])]

\* The commits of the k repository a metadata query looks at: hg log looks
\* at every changeset, git log at the commits reachable from HEAD.
Searched(k) == IF k = "git" THEN Ancestors("git", Master) ELSE Commits

----------------------------------------------------------------------------
(* Vcs *)

\* Vcs.is_vcs_for_repo
IsVcsForRepo(k, loc) ==
    loc \in LocalDirs /\ VcsRequirement(k) \in Entries(loc)

\* RevComb with the two revisions in the wrong order
RevCombSwapped(k, rev_a, rev_b) ==
    [range |-> IF k = "git" THEN ".." ELSE "::", a |-> rev_b, b |-> rev_a]

\* Git._rev_comb / Mercurial._rev_comb
RevComb(k, rev_a, rev_b) ==
    [range |-> IF k = "git" THEN ".." ELSE "::", a |-> rev_a, b |-> rev_b]

\* The log command of Vcs.change_list, as the tool answers it.
RunLog(k, rev_cmd) ==
    IF rev_cmd.range = ".." THEN GitLogRange(rev_cmd.a, rev_cmd.b)
    ELSE HgLogRange(rev_cmd.a, rev_cmd.b)

\* Vcs._changes_as_json: the lines of the stripped text, joined by commas
\* inside brackets and parsed: one dictionary per line, no line none.
ChangesAsJson(lines) ==
    [i \in 1 .. Len(lines) |->
        [hash |-> lines[i][1], author |-> lines[i][2],
         date |-> lines[i][3], message |-> lines[i][4]]]

\* Whether the tool of handle h runs in h's working directory: a scratch
\* repository the handle made, or a directory holding the tool's marker.
IsRepoOf(h, dirs) ==
    /\ PathExists(h.cwd, dirs)
    /\ \/ h.clean_up
       \/ VcsRequirement(h.kind) \in Entries(h.cwd.loc)

\* Vcs.change_list; fail names the subprocess that exits non-zero, if any.
VcsChangeList(h, rev_a, rev_b, fail, dirs) ==
    IF ~IsRepoOf(h, dirs) \/ fail = "refresh"
    THEN [exc |-> "CalledProcessError", value |-> << >>,
          ran |-> {UpdateLocalHistory(h.kind)}]
    ELSE IF fail = "log"
    THEN [exc |-> "CalledProcessError", value |-> << >>,
          ran |-> {UpdateLocalHistory(h.kind), "log"}]
    ELSE [exc |-> "none",
          value |-> ChangesAsJson(RunLog(h.kind, RevComb(h.kind, rev_a, rev_b))),
          ran |-> {UpdateLocalHistory(h.kind), "log"}]

\* Mercurial.change_list without the reversal
MercurialChangeListUnreversed(h, rev_a, rev_b, fail, dirs) ==
    LET r == VcsChangeList(h, rev_a, rev_b, fail, dirs)
    IN  IF r.exc # "none" THEN r
        ELSE [r EXCEPT !.value = DropFirst(r.value)]

\* Mercurial.change_list
MercurialChangeList(h, rev_a, rev_b, fail, dirs) ==
    LET r == VcsChangeList(h, rev_a, rev_b, fail, dirs)
    IN  IF r.exc # "none" THEN r
        ELSE [r EXCEPT !.value = Reversed(DropFirst(r.value))]

\* h.change_list(rev_a, rev_b), dispatched on the class of h
ChangeListOf(h, rev_a, rev_b, fail, dirs) ==
    IF h.kind = "hg" THEN MercurialChangeList(h, rev_a, rev_b, fail, dirs)
    ELSE VcsChangeList(h, rev_a, rev_b, fail, dirs)

\* Vcs.__init__ for an existing location (the else branch)
ExistingHandle(k, loc) ==
    [kind |-> k, source |-> loc.source, repository |-> loc.repository,
     cwd |-> Path(loc), clean_up |-> FALSE]

RECURSIVE FactoryLoopLastWins(_, _, _)
\* FactoryLoop without the check for a second match
FactoryLoopLastWins(i, obj, loc) ==
    IF i > Len(Classes) THEN [exc |-> "none", obj |-> obj]
    ELSE IF IsVcsForRepo(Classes[i], loc)
         THEN FactoryLoopLastWins(i + 1, ExistingHandle(Classes[i], loc), loc)
         ELSE FactoryLoopLastWins(i + 1, obj, loc)

RECURSIVE FactoryLoop(_, _, _)
\* The loop of Vcs.factory from class number i on, obj found so far.
FactoryLoop(i, obj, loc) ==
    IF i > Len(Classes) THEN [exc |-> "none", obj |-> obj]
    ELSE IF IsVcsForRepo(Classes[i], loc)
         THEN IF obj # NoHandle
              THEN [exc |-> "VcsException", obj |-> NoHandle]
              ELSE FactoryLoop(i + 1, ExistingHandle(Classes[i], loc), loc)
         ELSE FactoryLoop(i + 1, obj, loc)

\* Vcs.factory
VcsFactory(loc) ==
    LET r == FactoryLoop(1, NoHandle, loc)
    IN  IF r.exc # "none" THEN r
        ELSE IF r.obj = NoHandle
        THEN [exc |-> "VcsException", obj |-> NoHandle]
        ELSE r

\* tempfile.mkdtemp(): a directory that did not exist
Mkdtemp(dirs) == Max(dirs \cup {0}) + 1

\* Git._make_temporary / Mercurial._make_temporary: the scratch directory is
\* made first; git then clones into it, a subprocess that may fail, while
\* hg only writes .hg/hgrc.
MakeTemporary(k, fail, dirs) ==
    LET d == Mkdtemp(dirs)
    IN  IF k = "git" /\ fail = "clone"
        THEN [exc |-> "CalledProcessError", cwd |-> TmpPath(d),
              dirs |-> dirs \cup {d}, made |-> {d}, ran |-> {"clone"}]
        ELSE [exc |-> "none", cwd |-> TmpPath(d),
              dirs |-> dirs \cup {d}, made |-> {d},
              ran |-> IF k = "git" THEN {"clone"} ELSE {}]

\* NeedsTemporary for every location that is no working copy of the class
NeedsTemporaryUnlessRepo(k, loc, dirs) == ~IsVcsForRepo(k, loc)

\* Vcs.__init__: if not os.path.exists(location)
NeedsTemporary(k, loc, dirs) == ~PathExists(Path(loc), dirs)

\* Vcs.__init__
VcsInit(k, loc, fail, dirs) ==
    IF NeedsTemporary(k, loc, dirs)
    THEN LET t == MakeTemporary(k, fail, dirs)
         IN  [exc |-> t.exc,
              obj |-> IF t.exc # "none" THEN NoHandle
                      ELSE [kind |-> k, source |-> loc.source,
                            repository |-> loc.repository,
                            cwd |-> t.cwd, clean_up |-> TRUE],
              dirs |-> t.dirs, made |-> t.made, ran |-> t.ran]
    ELSE [exc |-> "none", obj |-> ExistingHandle(k, loc),
          dirs |-> dirs, made |-> {}, ran |-> {}]

\* VcsExit without the removal
VcsExitKeeping(h, dirs) == dirs

\* Vcs.__exit__: shutil.rmtree(self._cwd) when the handle is temporary
VcsExit(h, dirs) == IF h.clean_up THEN dirs \ {h.cwd.tmp} ELSE dirs

\* MatchingHash with the message as the only criterion
MatchingHashByMessage(k, author, date, message) ==
    LET S == {c \in Searched(k) : Meta(k, c).message = message}
        order == Descending(S)
    IN  [i \in 1 .. Len(order) |-> Hash(k, order[i])[1]]

\* Git.matching_hash / Mercurial.matching_hash: the raw output of the log
\* query, the short hash of every commit the tool finds for the author, the
\* date and the message, newest first; empty when there is none.  (The
\* authors and messages of this environment are no substrings of each
\* other, so the tools' substring search is equality here.)
MatchingHash(k, author, date, message) ==
    LET S == {c \in Searched(k) :
                /\ Meta(k, c).author = author
                /\ QueriedDate(k, c) = date
                /\ Meta(k, c).message = message}
        order == Descending(S)
    IN  [i \in 1 .. Len(order) |-> Hash(k, order[i])[1]]

RECURSIVE MatchingCallsCached(_)
\* MatchingCalls with a call for the first change of each triple only
MatchingCallsCached(chs) ==
    IF Len(chs) = 0 THEN << >>
    ELSE LET front == SubSeq(chs, 1, Len(chs) - 1)
             c == chs[Len(chs)]
             triple == <<c.author, c.date, c.message>>
             calls == MatchingCallsCached(front)
         IN  IF \E i \in 1 .. Len(calls) : calls[i] = triple THEN calls
             ELSE Append(calls, triple)

\* The calls of mirror.matching_hash the dictionary comprehension of
\* enhance_changes_information makes: one for each change of the list, in
\* order, with its author, date and message.
MatchingCalls(chs) ==
    [i \in 1 .. Len(chs) |-> <<chs[i].author, chs[i].date, chs[i].message>>]

\* The dictionary comprehension of enhance_changes_information: hash ->
\* mirror.matching_hash(...); of two changes with one hash the later wins.
MirroredHashes(k, chs) ==
    [x \in {chs[i].hash : i \in 1 .. Len(chs)} |->
        LET c == chs[Max({i \in 1 .. Len(chs) : chs[i].hash = x})]
        IN  MatchingHash(k, c.author, c.date, c.message)]

\* DictGet with the empty string for a missing key
DictGetEmpty(d, key, default) == IF key \in DOMAIN d THEN d[key] ELSE << >>

\* dict.get(key, default)
DictGet(d, key, default) == IF key \in DOMAIN d THEN d[key] ELSE default

\* The body of the second loop of enhance_changes_information, for one
\* change of the handle h.
EnhancedChange(h, change, mirrored_hashes) ==
    LET mirrored_hash == DictGet(mirrored_hashes, change.hash, NoMirror)
        self_url == RevisionUrl(h.kind, h.repository, change.hash)
        mirr_url == RevisionUrl(OtherCls(h.kind), h.repository, mirrored_hash)
    IN  IF Executable(h.kind) = "git"
        THEN [author |-> change.author, date |-> change.date,
              message |-> change.message,
              git_url |-> self_url, git_hash |-> change.hash,
              hg_url |-> mirr_url, hg_hash |-> mirrored_hash]
        ELSE [author |-> change.author, date |-> change.date,
              message |-> change.message,
              hg_url |-> self_url, hg_hash |-> change.hash,
              git_url |-> mirr_url, git_hash |-> mirrored_hash]

\* The second loop of enhance_changes_information, which changes every
\* record of the list in place.
EnhanceAll(h, chs, mirrored_hashes) ==
    [i \in 1 .. Len(chs) |-> EnhancedChange(h, chs[i], mirrored_hashes)]

\* Vcs.enhance_changes_information; fail names the subprocess that exits
\* non-zero, if any.  value is the list as the call leaves it, mirror the
\* handle of the with statement, made the scratch directories created.
EnhanceChangesInformation(h, chs, dependency_location, fake, fail, dirs) ==
    LET init == VcsInit(OtherCls(h.kind), dependency_location, fail, dirs)
        mirror == init.obj
        left == VcsExit(mirror, init.dirs)
        refresh == {UpdateLocalHistory(OtherCls(h.kind))}
    IN  IF fake
        THEN [exc |-> "none", value |-> EnhanceAll(h, chs, << >>),
              dirs |-> dirs, mirror |-> NoHandle, made |-> {}, ran |-> {},
              queries |-> << >>]
        ELSE IF init.exc # "none"
        THEN [exc |-> init.exc, value |-> chs, dirs |-> init.dirs,
              mirror |-> NoHandle, made |-> init.made, ran |-> init.ran,
              queries |-> << >>]
        ELSE IF ~IsRepoOf(mirror, init.dirs) \/ fail = "refresh"
        THEN [exc |-> "CalledProcessError", value |-> chs, dirs |-> left,
              mirror |-> mirror, made |-> init.made,
              ran |-> init.ran \cup refresh, queries |-> << >>]
        ELSE IF Len(chs) > 0 /\ fail = "match"
        THEN [exc |-> "CalledProcessError", value |-> chs, dirs |-> left,
              mirror |-> mirror, made |-> init.made,
              ran |-> init.ran \cup refresh \cup {"log"},
              queries |-> SubSeq(MatchingCalls(chs), 1, 1)]
        ELSE [exc |-> "none",
              value |-> EnhanceAll(h, chs, MirroredHashes(mirror.kind, chs)),
              dirs |-> left, mirror |-> mirror, made |-> init.made,
              ran |-> init.ran \cup refresh \cup
                      (IF Len(chs) > 0 THEN {"log"} ELSE {}),
              queries |-> MatchingCalls(chs)]

\* The body of test_hash_lookup: the change lists of one range in both
\* repositories, each enhanced against the other repository.
TestHashLookup(git_repo, hg_repo, rev_a, rev_b, dirs) ==
    LET git == VcsFactory(git_repo).obj
        hg == VcsFactory(hg_repo).obj
        listed_git == ChangeListOf(git, rev_a, rev_b, "none", dirs)
        listed_hg == ChangeListOf(hg, rev_a, rev_b, "none", dirs)
        enhanced_git == EnhanceChangesInformation(
                            git, listed_git.value, hg_repo, FALSE, "none", dirs)
        enhanced_hg == EnhanceChangesInformation(
                           hg, listed_hg.value, git_repo, FALSE, "none",
                           enhanced_git.dirs)
    IN  [exc |-> enhanced_hg.exc, dirs |-> enhanced_hg.dirs,
         git |-> git, hg |-> hg,
         change_list_git |-> enhanced_git.value,
         change_list_hg |-> enhanced_hg.value]

----------------------------------------------------------------------------
(* The text of a log and its parsing *)

\* A text is a sequence of characters, each a string.  These stand for
\* themselves: { } , : [ ] and the letters; "q" is the double quote, "b" the
\* backslash, "nl" the newline, "ff" the form feed, and "D" the six
\* characters of Vcs.JSON_DQUOTES ('__DQ__') taken as one.  A word such as
\* "hash" is one letter of this alphabet: no letter is one of b f n r t u /
\* after a backslash, a digit, or part of true, false or null.
JsonDquotes == "D"

\* What str.strip() removes and str.splitlines() splits at.
LineBreaks == {"nl", "ff"}

\* What json.loads refuses inside a string: the control characters.
ControlCharacters == {"nl", "ff"}

RECURSIVE Replace(_, _, _)
\* text.replace(old, new), old one character
Replace(text, old, new) ==
    IF Len(text) = 0 THEN << >>
    ELSE (IF Head(text) = old THEN new ELSE <<Head(text)>>)
         \o Replace(Tail(text), old, new)

\* Vcs._escape_changes
EscapeChanges(text) ==
    Replace(Replace(text, "q", <<"b", "q">>), JsonDquotes, <<"q">>)

RECURSIVE Strip(_)
\* text.strip()
Strip(text) ==
    IF Len(text) = 0 THEN << >>
    ELSE IF Head(text) \in LineBreaks THEN Strip(Tail(text))
    ELSE IF text[Len(text)] \in LineBreaks
    THEN Strip(SubSeq(text, 1, Len(text) - 1))
    ELSE text

RECURSIVE SplitLines(_)
\* text.splitlines()
SplitLines(text) ==
    IF Len(text) = 0 THEN << >>
    ELSE LET breaks == {i \in 1 .. Len(text) : text[i] \in LineBreaks}
         IN  IF breaks = {} THEN <<text>>
             ELSE <<SubSeq(text, 1, Min(breaks) - 1)>>
                  \o SplitLines(SubSeq(text, Min(breaks) + 1, Len(text)))

RECURSIVE Join(_, _)
\* sep.join(texts)
Join(texts, sep) ==
    IF Len(texts) = 0 THEN << >>
    ELSE IF Len(texts) = 1 THEN texts[1]
    ELSE texts[1] \o sep \o Join(Tail(texts), sep)

\* The result of a parsing step that found no valid JSON.
NoParse == [ok |-> FALSE, next |-> 0, value |-> << >>]

RECURSIVE ParseString(_, _, _)
\* json: a string, from the character i after its opening quote; acc is
\* what was read of it.
ParseString(t, i, acc) ==
    IF i > Len(t) THEN NoParse
    ELSE IF t[i] = "q"
    THEN [ok |-> TRUE, next |-> i + 1, value |-> acc]
    ELSE IF t[i] = "b"
    THEN IF i + 1 <= Len(t) /\ t[i + 1] \in {"q", "b"}
         THEN ParseString(t, i + 2, Append(acc, t[i + 1]))
         ELSE NoParse
    ELSE IF t[i] \in ControlCharacters THEN NoParse
    ELSE ParseString(t, i + 1, Append(acc, t[i]))

RECURSIVE ParseValue(_, _)
RECURSIVE ParseMembers(_, _, _)
\* json: the members of an object from character i on, obj the dictionary
\* of the members read (of two members with one key the later wins).
ParseMembers(t, i, obj) ==
    IF i > Len(t) \/ t[i] # "q" THEN NoParse
    ELSE LET key == ParseString(t, i + 1, << >>)
         IN  IF ~key.ok \/ key.next > Len(t) \/ t[key.next] # ":" THEN NoParse
             ELSE LET v == ParseValue(t, key.next + 1)
                      read == [k \in DOMAIN obj \cup {key.value} |->
                                  IF k = key.value THEN v.value ELSE obj[k]]
                  IN  IF ~v.ok \/ v.next > Len(t) THEN NoParse
                      ELSE IF t[v.next] = ","
                      THEN ParseMembers(t, v.next + 1, read)
                      ELSE IF t[v.next] = "}"
                      THEN [ok |-> TRUE, next |-> v.next + 1,
                            value |-> [type |-> "dict", members |-> read]]
                      ELSE NoParse

\* json: a value from character i on, a string or an object.
ParseValue(t, i) ==
    IF i > Len(t) THEN NoParse
    ELSE IF t[i] = "q"
    THEN LET str == ParseString(t, i + 1, << >>)
         IN  IF ~str.ok THEN NoParse
             ELSE [str EXCEPT !.value = [type |-> "str", text |-> str.value]]
    ELSE IF t[i] = "{"
    THEN IF i + 1 <= Len(t) /\ t[i + 1] = "}"
         THEN [ok |-> TRUE, next |-> i + 2,
               value |-> [type |-> "dict", members |-> << >>]]
         ELSE ParseMembers(t, i + 1, << >>)
    ELSE NoParse

RECURSIVE ParseElements(_, _, _)
\* json: the elements of an array from character i on
ParseElements(t, i, list) ==
    LET v == ParseValue(t, i)
    IN  IF ~v.ok \/ v.next > Len(t) THEN NoParse
        ELSE IF t[v.next] = ","
        THEN ParseElements(t, v.next + 1, Append(list, v.value))
        ELSE IF t[v.next] = "]"
        THEN [ok |-> TRUE, next |-> v.next + 1, value |-> Append(list, v.value)]
        ELSE NoParse

\* json.loads of a text that starts with "[": the list, or ValueError
\* (json.JSONDecodeError).
JsonLoads(t) ==
    LET r == IF Len(t) >= 2 /\ t[2] = "]"
             THEN [ok |-> TRUE, next |-> 3, value |-> << >>]
             ELSE ParseElements(t, 2, << >>)
    IN  IF r.ok /\ r.next = Len(t) + 1
        THEN [exc |-> "none", value |-> r.value]
        ELSE [exc |-> "ValueError", value |-> << >>]

\* Vcs._changes_as_json, on the text of the log
ChangesAsJsonText(text) ==
    JsonLoads(<<"[">> \o Join(SplitLines(Strip(EscapeChanges(text))), <<",">>)
              \o <<"]">>)

\* One entry of the log as _log_format asks for it: LOG_TEMLATE with
\* JSON_DQUOTES for its double quotes and the four fields filled in.
LogEntry(fields) ==
    LET item(name, text) ==
            <<JsonDquotes, name, JsonDquotes, ":", JsonDquotes>> \o text
            \o <<JsonDquotes>>
    IN  <<"{">> \o item("hash", fields.hash) \o <<",">>
        \o item("author", fields.author) \o <<",">>
        \o item("date", fields.date) \o <<",">>
        \o item("message", fields.message) \o <<"}">>

\* The output of the log command: hg ends every entry with a newline (its
\* template does), git puts a newline between two entries.
LogOutput(k, entries) ==
    IF k = "hg"
    THEN Join([i \in 1 .. Len(entries) |-> LogEntry(entries[i]) \o <<"nl">>],
              << >>)
    ELSE Join([i \in 1 .. Len(entries) |-> LogEntry(entries[i])], <<"nl">>)

\* The first lines of commit messages the parsing is explored with: plain
\* words, a double quote, a backslash before a letter and at the end, a
\* form feed, and the text of JSON_DQUOTES itself.
Messages ==
    {<<"fix", "it">>,
     <<"say", "q", "hi", "q">>,
     <<"fix", "b", "d">>,
     <<"path", "b">>,
     <<"a", "ff", "c">>,
     <<JsonDquotes, "}", ",", "{", JsonDquotes, "x", JsonDquotes, ":",
       JsonDquotes, "y">>}

\* The fields of the entry number i of a log, with the message given.
EntryFields(i, message) ==
    [hash |-> <<"h", "h", "h">>, author |-> <<AuthorOf(i)>>,
     date |-> <<"Mon", ",", "01", "Jan">>, message |-> message]

----------------------------------------------------------------------------
(* DepUpdate *)

\* Vcs.repo_is_clean: true iff the working copy of the handle has no
\* uncommitted modification; uncommitted is the set of directories with one.
RepoIsClean(h, uncommitted) == h.cwd.loc \notin uncommitted

\* Vcs.undo_changes: reverts the working copy of the handle to its last
\* committed state.
UndoChanges(h, uncommitted) == uncommitted \ {h.cwd.loc}

\* Vcs.commit_changes: commits every modification of the working copy of
\* the handle.
CommitChanges(h, uncommitted) == uncommitted \ {h.cwd.loc}

\* WriteFile with nothing written
WriteNothing(loc, uncommitted) == uncommitted

\* A file written into the directory loc and not committed.
WriteFile(loc, uncommitted) == uncommitted \cup {loc}

\* DowngradeWarned without the test of the reverse list
DowngradeWarnedAlways(reverse) == TRUE

\* DepUpdate.__init__: len(self.changes) > 0 for the reverse list, the
\* condition of the warning 'You are trying to downgrade the dependency!'
DowngradeWarned(reverse) == Len(reverse) > 0

\* The two change_list calls of DepUpdate.__init__ and the downgrade
\* warning; fail names the subprocess that exits non-zero, if any.
InitialChanges(main_vcs, base_revision, new_revision, fail, dirs) ==
    LET forward == ChangeListOf(main_vcs, base_revision, new_revision,
                                fail, dirs)
        reverse == ChangeListOf(main_vcs, new_revision, base_revision,
                                IF fail = "reverse_log" THEN "log" ELSE "none",
                                dirs)
    IN  IF forward.exc # "none"
        THEN [exc |-> forward.exc, value |-> << >>, warned |-> FALSE,
              ran |-> forward.ran]
        ELSE IF Len(forward.value) # 0
        THEN [exc |-> "none", value |-> forward.value, warned |-> FALSE,
              ran |-> forward.ran]
        ELSE [exc |-> reverse.exc, value |-> reverse.value,
              warned |-> reverse.exc = "none" /\ DowngradeWarned(reverse.value),
              ran |-> forward.ran \cup reverse.ran]

NoObject == [constructed |-> FALSE]

\* IsDirty with the check left out
IsDirtyNever(root_repo, uncommitted) == FALSE

\* DepUpdate.__init__: if not self.root_repo.repo_is_clean(), the
\* condition of 'Your repository is dirty' and exit(1)
IsDirty(root_repo, uncommitted) == ~RepoIsClean(root_repo, uncommitted)

\* DepUpdate.__init__ run in the directory cwd, uncommitted the directories
\* whose working copy has uncommitted changes, for the dependency kept in
\* the directory dependency and pinned at base_revision.
DepUpdateInit(cwd, uncommitted, dependency, base_revision, new_revision, mirror_location, skip_mirror, fail, dirs) ==
    LET root == VcsFactory(cwd)
        main == VcsFactory(dependency)
        listed == InitialChanges(main.obj, base_revision, new_revision,
                                 fail, dirs)
        enhanced == EnhanceChangesInformation(
                        main.obj, listed.value, mirror_location, skip_mirror,
                        IF fail = "mirror_refresh" THEN "refresh" ELSE fail,
                        dirs)
        failed(e, ran, left) ==
            [exc |-> e, obj |-> NoObject, value |-> << >>, dirs |-> left,
             ran |-> ran, made |-> left \ dirs,
             warned |-> "log" \in ran /\ listed.warned]
    IN  IF root.exc # "none" THEN failed(root.exc, {}, dirs)
        ELSE IF IsDirty(root.obj, uncommitted)
        THEN failed("SystemExit", {"status"}, dirs)
        ELSE IF main.exc # "none" THEN failed(main.exc, {"status"}, dirs)
        ELSE IF listed.exc # "none"
        THEN failed(listed.exc, {"status"} \cup listed.ran, dirs)
        ELSE IF enhanced.exc # "none"
        THEN failed(enhanced.exc,
                    {"status"} \cup listed.ran \cup enhanced.ran,
                    enhanced.dirs)
        ELSE [exc |-> "none",
              obj |-> [constructed |-> TRUE, root_repo |-> root.obj,
                       main_vcs |-> main.obj,
                       base_revision |-> base_revision,
                       new_revision |-> new_revision,
                       skip_mirror |-> skip_mirror,
                       warned |-> listed.warned],
              value |-> enhanced.value,
              dirs |-> enhanced.dirs,
              ran |-> {"status"} \cup listed.ran \cup enhanced.ran,
              made |-> enhanced.made,
              warned |-> listed.warned]

\* What a run of the object has done besides printing, uncommitted the
\* directories with uncommitted changes before it.
Nothing(uncommitted) ==
    [exc |-> "none", output |-> "", built |-> {}, manifest |-> "pinned",
     committed |-> FALSE, undone |-> NoHandle, dirty |-> uncommitted]

\* DepUpdate._update_dependencies_file: the entry of the dependency in the
\* file 'dependencies' of the root directory, which pins the dependency at
\* base_revision in both repositories, replaced by the entry made of the
\* two hashes of changes[0]; the file is modified unless the entries are
\* the same text.
UpdateDependenciesFile(obj, chs, uncommitted) ==
    LET current_entry == [hg |-> Hash("hg", obj.base_revision),
                          git |-> Hash("git", obj.base_revision)]
        new_entry == [hg |-> chs[1].hg_hash, git |-> chs[1].git_hash]
    IN  IF new_entry = current_entry THEN uncommitted
        ELSE WriteFile(obj.root_repo.cwd.loc, uncommitted)

\* DepUpdate.commit_update: the manifest rewritten, the copied code updated
\* (ensure_dependencies.py) and the root repository committed inside the
\* try statement; the except clause on a CalledProcessError.
CommitUpdate(obj, chs, fail, uncommitted) ==
    IF Len(chs) = 0
    THEN [Nothing(uncommitted) EXCEPT !.exc = "IndexError", !.built = {"commit"}]
    ELSE LET rewritten == UpdateDependenciesFile(obj, chs, uncommitted)
             manifest == IF rewritten = uncommitted THEN "pinned"
                         ELSE "rewritten"
         IN  IF fail \in {"ensure_dependencies", "commit"}
             THEN [Nothing(uncommitted) EXCEPT
                      !.output = "None", !.built = {"commit"},
                      !.manifest = IF RepoIsClean(obj.root_repo,
                                         UndoChanges(obj.main_vcs, rewritten))
                                   THEN "pinned" ELSE manifest,
                      !.undone = obj.main_vcs,
                      !.dirty = UndoChanges(obj.main_vcs, rewritten)]
             ELSE [Nothing(uncommitted) EXCEPT
                      !.output = "commit_msg", !.built = {"commit"},
                      !.manifest = manifest, !.committed = TRUE,
                      !.dirty = CommitChanges(obj.root_repo, rewritten)]

\* DepUpdate.build_diff, build_changes, build_issue and commit_update, as
\* action_map dispatches them.
RunAction(obj, chs, action, fail, uncommitted) ==
    CASE action = "diff" ->
            IF fail = "diff"
            THEN [Nothing(uncommitted) EXCEPT !.exc = "CalledProcessError",
                                              !.built = {"diff"}]
            ELSE [Nothing(uncommitted) EXCEPT !.output = "diff",
                                              !.built = {"diff"}]
      [] action = "changes" ->
            [Nothing(uncommitted) EXCEPT !.output = "changes",
                                         !.built = {"changes"}]
      [] action = "issue" ->
            IF Len(chs) = 0
            THEN [Nothing(uncommitted) EXCEPT !.exc = "IndexError",
                                              !.built = {"issue"}]
            ELSE [Nothing(uncommitted) EXCEPT !.output = "issue",
                                              !.built = {"issue"}]
      [] OTHER -> CommitUpdate(obj, chs, fail, uncommitted)

\* NoChangesFound with None tested for instead of the length
NoChangesFoundIsNone(chs) == FALSE

\* The test of DepUpdate.__call__ for an empty change list
NoChangesFound(chs) == Len(chs) = 0

\* DepUpdate.__call__; filename is "" for None.
DepUpdateRun(obj, chs, action, filename, lookup_inotes, fail, uncommitted) ==
    LET done == RunAction(obj, chs, action, fail, uncommitted)
        base == [exc |-> done.exc, printed |-> "", written |-> "",
                 looked_up |-> FALSE, built |-> done.built,
                 manifest |-> done.manifest, committed |-> done.committed,
                 undone |-> done.undone, dirty |-> done.dirty]
    IN  IF NoChangesFound(chs)
        THEN [exc |-> "none", printed |-> "NO CHANGES FOUND", written |-> "",
              looked_up |-> FALSE, built |-> {}, manifest |-> "pinned",
              committed |-> FALSE, undone |-> NoHandle, dirty |-> uncommitted]
        ELSE IF done.exc # "none"
        THEN [base EXCEPT !.looked_up = lookup_inotes]
        ELSE IF filename # ""
        THEN IF done.output = "None"
             THEN [base EXCEPT !.looked_up = lookup_inotes,
                               !.exc = "TypeError"]
             ELSE [base EXCEPT !.looked_up = lookup_inotes,
                               !.written = done.output,
                               !.printed = "Output writen to"]
        ELSE [base EXCEPT !.looked_up = lookup_inotes,
                          !.printed = done.output]

----------------------------------------------------------------------------
(* The state machine *)

NoCall == [op |-> "none"]

Init ==
    /\ branch \in [Kinds -> 0 .. MaxCommits - 2]
    /\ defect \in Defects
    /\ tmpdirs = {}
    /\ dirty \in {{}, {RootDir}}
    /\ pc = "start"
    /\ exc = "none"
    /\ vcs = NoHandle
    /\ changes = << >>
    /\ call = NoCall

\* vcs = Vcs.factory(loc)
Factory ==
    /\ pc = "start"
    /\ \E loc \in Locations :
       \E r \in {VcsFactory(loc)} :
           /\ exc' = r.exc
           /\ vcs' = r.obj
           /\ call' = [op |-> "factory", location |-> loc]
    /\ pc' = "factory"
    /\ UNCHANGED <<branch, defect, tmpdirs, dirty, changes>>

\* changes = vcs.change_list(rev_a, rev_b)
ChangeList ==
    /\ pc = "factory"
    /\ exc = "none"
    /\ \E rev_a \in Commits, rev_b \in Commits,
          fail \in {"none", "refresh", "log"} :
       \E r \in {ChangeListOf(vcs, rev_a, rev_b, fail, tmpdirs)} :
           /\ exc' = r.exc
           /\ changes' = r.value
           /\ call' = [op |-> "change_list", rev_a |-> rev_a, rev_b |-> rev_b,
                       fail |-> fail, ran |-> r.ran]
    /\ pc' = "change_list"
    /\ UNCHANGED <<branch, defect, tmpdirs, dirty, vcs>>

\* vcs.enhance_changes_information(changes, dependency_location, fake)
Enhance ==
    /\ pc = "change_list"
    /\ exc = "none"
    /\ \E dependency_location \in Locations, fake \in BOOLEAN,
          fail \in {"none", "clone", "refresh", "match"} :
       \E r \in {EnhanceChangesInformation(vcs, changes, dependency_location,
                                           fake, fail, tmpdirs)} :
           /\ exc' = r.exc
           /\ changes' = r.value
           /\ tmpdirs' = r.dirs
           /\ call' = [op |-> "enhance", fake |-> fake, fail |-> fail,
                       dependency_location |-> dependency_location,
                       before |-> changes, mirror |-> r.mirror,
                       made |-> r.made, ran |-> r.ran,
                       queries |-> r.queries]
    /\ pc' = "enhance"
    /\ UNCHANGED <<branch, defect, dirty, vcs>>

\* test_hash_lookup, for a range of revisions
HashLookup ==
    /\ pc = "start"
    /\ \E git_repo \in {GitRepoDir, GitMirrorDir}, hg_repo \in {HgRepoDir},
          rev_a \in Commits, rev_b \in Commits :
       \E r \in {TestHashLookup(git_repo, hg_repo, rev_a, rev_b, tmpdirs)} :
           /\ exc' = r.exc
           /\ tmpdirs' = r.dirs
           /\ call' = [op |-> "hash_lookup", git |-> r.git, hg |-> r.hg,
                       rev_a |-> rev_a, rev_b |-> rev_b,
                       change_list_git |-> r.change_list_git,
                       change_list_hg |-> r.change_list_hg]
    /\ pc' = "hash_lookup"
    /\ UNCHANGED <<branch, defect, dirty, vcs, changes>>

\* DepUpdate(...): the constructor, run in the directory cwd for the
\* dependency in the directory dependency
Construct ==
    /\ pc = "start"
    /\ \E cwd \in {RootDir, PlainDir},
          dependency \in {GitRepoDir, HgRepoDir},
          base_revision \in Commits, new_revision \in Commits,
          mirror_location \in {GitRepoDir, HgRepoDir, RemoteUrl},
          skip_mirror \in BOOLEAN,
          fail \in {"none", "refresh", "log", "reverse_log", "clone",
                    "mirror_refresh", "match"} :
       \E r \in {DepUpdateInit(cwd, dirty, dependency, base_revision,
                               new_revision, mirror_location, skip_mirror,
                               fail, tmpdirs)} :
           /\ exc' = r.exc
           /\ changes' = r.value
           /\ tmpdirs' = r.dirs
           /\ vcs' = IF r.obj.constructed THEN r.obj.main_vcs ELSE NoHandle
           /\ call' = [op |-> "depup", obj |-> r.obj, ran |-> r.ran,
                       made |-> r.made, warned |-> r.warned,
                       args |-> [cwd |-> cwd, dependency |-> dependency,
                                 base_revision |-> base_revision,
                                 new_revision |-> new_revision,
                                 fail |-> fail]]
    /\ pc' = "depup"
    /\ UNCHANGED <<branch, defect, dirty>>

\* The object called: DepUpdate.__call__.  The commit subcommand has no
\* options --filename, --skip-mirror and --lookup-integration-notes.
Run ==
    /\ pc = "depup"
    /\ exc = "none"
    /\ \E action \in {"diff", "changes", "issue", "commit"},
          filename \in {"", "out.txt"}, lookup_inotes \in BOOLEAN,
          fail \in {"none", "diff", "ensure_dependencies", "commit"} :
       /\ action = "commit" =>
             filename = "" /\ ~lookup_inotes /\ ~call.obj.skip_mirror
       /\ \E r \in {DepUpdateRun(call.obj, changes, action, filename,
                                 lookup_inotes, fail, dirty)} :
           /\ exc' = r.exc
           /\ dirty' = r.dirty
           /\ call' = [op |-> "run", obj |-> call.obj, action |-> action,
                       filename |-> filename, fail |-> fail,
                       printed |-> r.printed,
                       written |-> r.written, looked_up |-> r.looked_up,
                       built |-> r.built, manifest |-> r.manifest,
                       committed |-> r.committed, undone |-> r.undone]
    /\ pc' = "run"
    /\ UNCHANGED <<branch, defect, tmpdirs, vcs, changes>>

\* test_dirty_check_and_clean, one step: a file written into the working
\* copy of the handle, or vcs.undo_changes(), and then vcs.repo_is_clean().
\* trail is the steps made with the handle and what repo_is_clean returned
\* after each; fresh is what it returns before the first.
WorkingCopyStep ==
    /\ pc \in {"factory", "working_copy"}
    /\ exc = "none"
    /\ \E op \in {"write", "undo_changes"} :
       \E trail \in {IF pc = "factory" THEN << >> ELSE call.trail},
          fresh \in {IF pc = "factory" THEN RepoIsClean(vcs, dirty)
                                      ELSE call.fresh},
          d \in {IF op = "write" THEN WriteFile(vcs.cwd.loc, dirty)
                                 ELSE UndoChanges(vcs, dirty)} :
           /\ Len(trail) < MaxSteps
           /\ dirty' = d
           /\ call' = [op |-> "working_copy", fresh |-> fresh,
                       trail |-> Append(trail,
                                   [op |-> op, clean |-> RepoIsClean(vcs, d)])]
    /\ pc' = "working_copy"
    /\ UNCHANGED <<branch, defect, tmpdirs, exc, vcs, changes>>

\* Vcs._changes_as_json(changes) as change_list calls it, for the output
\* of the log command of a repository with the given messages.  The parsing
\* reads neither repository, so it is explored from one environment only.
ParseLog ==
    /\ pc = "start"
    /\ defect = NoDefect /\ dirty = {}
    /\ \E k \in Kinds, n \in 0 .. MaxLines :
       \E messages \in [1 .. n -> Messages] :
       \E entries \in {[i \in 1 .. n |-> EntryFields(i, messages[i])]} :
       \E r \in {ChangesAsJsonText(LogOutput(k, entries))} :
           /\ exc' = r.exc
           /\ call' = [op |-> "parse", kind |-> k, entries |-> entries,
                       value |-> r.value]
    /\ pc' = "parse"
    /\ UNCHANGED <<branch, defect, tmpdirs, dirty, vcs, changes>>

Next ==
    \/ Factory
    \/ ChangeList
    \/ Enhance
    \/ HashLookup
    \/ Construct
    \/ Run
    \/ WorkingCopyStep
    \/ ParseLog

Spec == Init /\ [][Next]_vars

----------------------------------------------------------------------------
(* The claims *)

\* The backend kinds whose marker is directly under loc.
Markers(loc) == {k \in Kinds : VcsRequirement(k) \in Entries(loc)}

\* The commit a record of a change list stands for.
CommitOf(change) == change.hash[1].rev

\* The mirror hash of an enhanced record of the handle h.
MirrorHashOf(h, change) ==
    IF h.kind = "git" THEN change.hg_hash ELSE change.git_hash

\* The repository of kind k is one line of commits.
Linear(k) == branch[k] = MaxCommits - 2

\* C1: Vcs.factory(path) returns a handle exactly when one backend kind's
\* marker is directly under path, and then a handle of that kind; with both
\* markers or with none it raises VcsException and returns no handle.
C1_FactoryExactlyOne ==
    pc = "factory" =>
        IF Cardinality(Markers(call.location)) = 1
        THEN exc = "none" /\ vcs # NoHandle /\ vcs.kind \in Markers(call.location)
        ELSE exc = "VcsException" /\ vcs = NoHandle

C1_Witness ==
    pc = "factory" /\ Markers(call.location) = Kinds /\ exc = "VcsException"

\* C2: the backing directory of a temporary handle used in a with statement
\* no longer exists once the statement is left, whether the refresh and the
\* matching inside it succeeded or raised.
C2_TemporaryRemoved ==
    (pc = "enhance" /\ call.mirror.clean_up) =>
        ~PathExists(call.mirror.cwd, tmpdirs)

C2_Witness ==
    /\ pc = "enhance"
    /\ call.mirror.clean_up
    /\ exc = "CalledProcessError"
    /\ call.mirror.cwd.tmp \in call.made

\* C3: enhance_changes_information with fake=False leaves none of the
\* scratch directories it made behind, on any exit path.
C3_NoScratchLeft ==
    (pc = "enhance" /\ ~call.fake) => call.made \cap tmpdirs = {}

\* C4 (original): the records of a change list are ordered oldest first:
\* each record's commit is the parent of the next record's.
C4_OldestFirst ==
    (pc = "change_list" /\ exc = "none") =>
        \A i \in 1 .. Len(changes) - 1 :
            CommitOf(changes[i]) = Parent(vcs.kind, CommitOf(changes[i + 1]))

\* C4 (amended): the records of a change list are ordered newest first, for
\* both backends: each record's commit is the child of the next record's.
C4_NewestFirst ==
    (pc = "change_list" /\ exc = "none") =>
        \A i \in 1 .. Len(changes) - 1 :
            CommitOf(changes[i + 1]) = Parent(vcs.kind, CommitOf(changes[i]))

C4_Witness ==
    pc = "change_list" /\ exc = "none" /\ vcs.kind = "hg" /\ Len(changes) >= 2

\* C5: change_list(R, R) returns the empty list, for both backends, when no
\* subprocess fails.
C5_SameRevisionEmpty ==
    (pc = "change_list" /\ call.rev_a = call.rev_b /\ call.fail = "none") =>
        exc = "none" /\ changes = << >>

C5_Witness ==
    /\ pc = "change_list"
    /\ call.rev_a = call.rev_b
    /\ vcs.kind = "hg"
    /\ exc = "none"
    /\ "log" \in call.ran

\* The record change_list makes of commit c of the k repository.
RecordOf(k, c) ==
    [hash |-> Hash(k, c), author |-> Meta(k, c).author,
     date |-> Meta(k, c).date, message |-> Meta(k, c).message]

\* C6 (original): on a linear history with rev_a an ancestor of rev_b,
\* change_list(rev_a, rev_b) is the commits after rev_a up to rev_b in
\* the order [rev_a + 1, ..., rev_b].
C6_RangeOldestFirst ==
    (/\ pc = "change_list" /\ exc = "none"
     /\ Linear(vcs.kind) /\ call.rev_a <= call.rev_b) =>
        changes = [i \in 1 .. call.rev_b - call.rev_a |->
                      RecordOf(vcs.kind, call.rev_a + i)]

\* C6 (amended): on a linear history with rev_a an ancestor of rev_b,
\* change_list(rev_a, rev_b) is exactly the commits after rev_a up to and
\* including rev_b, each once, newest first: [rev_b, ..., rev_a + 1].
C6_RangeNewestFirst ==
    (/\ pc = "change_list" /\ exc = "none"
     /\ Linear(vcs.kind) /\ call.rev_a <= call.rev_b) =>
        changes = [i \in 1 .. call.rev_b - call.rev_a |->
                      RecordOf(vcs.kind, call.rev_b + 1 - i)]

C6_Witness ==
    /\ pc = "change_list" /\ exc = "none"
    /\ Linear(vcs.kind) /\ vcs.kind = "hg"
    /\ call.rev_a = 0 /\ call.rev_b = 2
    /\ Len(changes) = 2

\* C7: a record whose author, date and message no commit of the counterpart
\* repository has gets the mirror hash 'NO MIRROR' from
\* enhance_changes_information with fake=False.
C7_UnmatchedGetsSentinel ==
    (pc = "enhance" /\ ~call.fake /\ exc = "none") =>
        \A i \in 1 .. Len(changes) :
            MatchingHash(OtherCls(vcs.kind), changes[i].author,
                         changes[i].date, changes[i].message) = << >>
            => MirrorHashOf(vcs, changes[i]) = NoMirror

\* C8: with fake=True enhance_changes_information constructs no counterpart
\* handle, makes no scratch directory, runs no subprocess, and gives every
\* record the mirror hash 'NO MIRROR'.
C8_FakeSkipsMirror ==
    (pc = "enhance" /\ call.fake) =>
        /\ exc = "none"
        /\ call.mirror = NoHandle
        /\ call.made = {}
        /\ tmpdirs = {}
        /\ call.ran = {}
        /\ Len(changes) = Len(call.before)
        /\ \A i \in 1 .. Len(changes) : MirrorHashOf(vcs, changes[i]) = NoMirror

C8_Witness ==
    pc = "enhance" /\ call.fake /\ Len(changes) >= 2

\* The original preconditions of C9: both repositories hold the same
\* commits with the same author, date and message, each triple unique.
SameLogicalCommits == defect.type \in {"none", "recommitted"}

\* The i-th records of the two lists agree on both hashes and both URLs.
AgreeAt(i) ==
    LET g == call.change_list_git[i]
        h == call.change_list_hg[i]
    IN  /\ g.hg_hash = h.hg_hash
        /\ g.git_hash = h.git_hash
        /\ g.hg_url = h.hg_url
        /\ g.git_url = h.git_url

C10_SameRevisionNoChanges ==
    (pc = "run" /\ call.obj.base_revision = call.obj.new_revision) =>
        /\ exc = "none"
        /\ call.printed = "NO CHANGES FOUND"
        /\ call.built = {}
        /\ call.written = ""
        /\ call.manifest = "pinned"
        /\ ~call.committed

C10_Witness ==
    /\ pc = "run"
    /\ call.obj.base_revision = call.obj.new_revision
    /\ call.action = "commit"
    /\ call.printed = "NO CHANGES FOUND"
    /\ changes = << >>

\* The hash a record of the handle h has of h's own repository, before
\* ('hash') or after enhancement.
OwnHashOf(h, change) ==
    IF "hash" \in DOMAIN change THEN change.hash
    ELSE IF h.kind = "git" THEN change.git_hash ELSE change.hg_hash

\* What the handle of the dependency lists for the range rev_a, rev_b when
\* no subprocess fails.
Listed(dependency, rev_a, rev_b) ==
    ChangeListOf(VcsFactory(dependency).obj, rev_a, rev_b, "none", {}).value

\* C11: the constructor emits the downgrade warning exactly when its forward
\* listing change_list(base, new) is empty and its reverse listing
\* change_list(new, base) is not, and it then goes on with the records of
\* the reverse listing as the change list.
C11_DowngradeWarning ==
    pc = "depup" =>
        LET a == call.args
            forward == Listed(a.dependency, a.base_revision, a.new_revision)
            reverse == Listed(a.dependency, a.new_revision, a.base_revision)
            listed == /\ "log" \in call.ran
                      /\ a.fail # "log"
                      /\ ~(a.fail = "reverse_log" /\ forward = << >>)
        IN  /\ call.warned <=> (listed /\ forward = << >> /\ reverse # << >>)
            /\ (call.warned /\ exc = "none") =>
                  /\ Len(changes) = Len(reverse)
                  /\ \A i \in 1 .. Len(changes) :
                        OwnHashOf(vcs, changes[i]) = reverse[i].hash

C11_Witness ==
    /\ pc = "depup"
    /\ exc = "none"
    /\ call.warned
    /\ Len(changes) = 2
    /\ call.args.base_revision > call.args.new_revision

\* C12: when the root working copy has uncommitted changes, the constructor
\* ends with SystemExit after the status query alone: no change listing, no
\* mirror matching, no scratch directory, no object; and the object is only
\* ever run (so the manifest only rewritten or committed) when the root
\* working copy was clean at the check.
C12_DirtyCheckFirst ==
    /\ [](pc = "depup" /\ call.args.cwd \in dirty =>
            /\ exc = "SystemExit"
            /\ call.ran = {"status"}
            /\ call.made = {}
            /\ changes = << >>
            /\ ~call.obj.constructed)
    /\ [][pc' = "run" => call.args.cwd \notin dirty]_vars

C12_Witness ==
    /\ pc = "depup"
    /\ call.args.cwd \in dirty
    /\ exc = "SystemExit"
    /\ call.args.fail = "none"

\* C13: when ensure_dependencies.py or the commit fails with a process error
\* after commit_update has rewritten the manifest, undo_changes is applied
\* to the root repository, so that once commit_update has returned the
\* manifest is back at its committed content and the root working copy has
\* no uncommitted change.
C13_RollbackRestoresRoot ==
    (/\ pc = "run"
     /\ call.action = "commit"
     /\ call.fail \in {"ensure_dependencies", "commit"}
     /\ call.built = {"commit"}) =>
        /\ call.undone = call.obj.root_repo
        /\ call.manifest = "pinned"
        /\ RepoIsClean(call.obj.root_repo, dirty)

\* The author, date and message of a record.
TripleOf(change) == <<change.author, change.date, change.message>>

\* Records of the enhanced list with one author, date and message have one
\* mirror hash.
SameTripleSameMirror ==
    \A i, j \in 1 .. Len(changes) :
        TripleOf(changes[i]) = TripleOf(changes[j]) =>
            MirrorHashOf(vcs, changes[i]) = MirrorHashOf(vcs, changes[j])

\* C14 (original): enhance_changes_information calls the counterpart's
\* matching_hash at most once for each distinct author, date and message,
\* and records sharing the three receive the same mirror hash.
C14_OncePerTriple ==
    (pc = "enhance" /\ ~call.fake /\ exc = "none") =>
        /\ \A i, j \in 1 .. Len(call.queries) :
              call.queries[i] = call.queries[j] => i = j
        /\ SameTripleSameMirror

\* C14 (amended): enhance_changes_information keeps no cache of matches: it
\* calls the counterpart's matching_hash exactly once for each record of the
\* list, in order, also for records that share author, date and message;
\* the results are kept by primary hash, and records sharing the three
\* receive the same mirror hash.
C14_OncePerRecord ==
    (pc = "enhance" /\ ~call.fake /\ exc = "none") =>
        /\ Len(call.queries) = Len(call.before)
        /\ \A i \in 1 .. Len(call.queries) :
              call.queries[i] = TripleOf(call.before[i])
        /\ SameTripleSameMirror

C14_Witness ==
    /\ pc = "enhance" /\ ~call.fake /\ exc = "none"
    /\ Len(changes) = 2
    /\ TripleOf(changes[1]) = TripleOf(changes[2])
    /\ call.queries[1] = call.queries[2]
    /\ MirrorHashOf(vcs, changes[1]) # << >>

\* C15 (original): enhance_changes_information with fake=False uses the
\* mirror location in place when it is a working copy of the counterpart
\* kind, and in every other case makes a temporary copy that it owns.
C15_TemporaryUnlessCounterpart ==
    (pc = "enhance" /\ ~call.fake) =>
        IF IsVcsForRepo(OtherCls(vcs.kind), call.dependency_location)
        THEN /\ call.made = {}
             /\ call.mirror = ExistingHandle(OtherCls(vcs.kind),
                                             call.dependency_location)
        ELSE /\ call.made # {}
             /\ call.mirror # NoHandle => call.mirror.clean_up

\* C15 (amended): enhance_changes_information with fake=False makes a
\* temporary copy exactly when the mirror location does not exist as a
\* local path; an existing path is used in place and not removed, whatever
\* it holds, and when it holds no working copy of the counterpart kind the
\* history refresh in it fails with CalledProcessError.
C15_TemporaryUnlessExists ==
    (pc = "enhance" /\ ~call.fake) =>
        IF PathExists(Path(call.dependency_location), {})
        THEN /\ call.made = {}
             /\ tmpdirs = {}
             /\ call.mirror = ExistingHandle(OtherCls(vcs.kind),
                                             call.dependency_location)
             /\ ~call.mirror.clean_up
             /\ ~IsVcsForRepo(OtherCls(vcs.kind), call.dependency_location)
                   => exc = "CalledProcessError" /\ changes = call.before
        ELSE /\ call.made # {}
             /\ call.mirror # NoHandle =>
                   /\ call.mirror.clean_up
                   /\ call.mirror.cwd.tmp \in call.made

C15_Witness ==
    /\ pc = "enhance" /\ ~call.fake
    /\ call.dependency_location = PlainDir
    /\ call.fail = "none"
    /\ call.made = {}
    /\ exc = "CalledProcessError"

\* The repositories of the fixtures, which the tests find freshly made.
Fixtures == {GitRepoDir, HgRepoDir, GitMirrorDir}

C17_SingleFirstMatch ==
    (pc = "enhance" /\ ~call.fake /\ exc = "none") =>
        \A i \in 1 .. Len(changes) :
            LET found == MatchingHash(OtherCls(vcs.kind), changes[i].author,
                                      changes[i].date, changes[i].message)
            IN  Len(found) > 1 =>
                    MirrorHashOf(vcs, changes[i]) = <<found[1]>>

\* The keys of a record of a change list.
RecordKeys == {<<"hash">>, <<"author">>, <<"date">>, <<"message">>}

\* A parsed value is a record of a change list: a dictionary with the four
\* keys, each a string.
IsRecord(v) ==
    /\ v.type = "dict"
    /\ DOMAIN v.members = RecordKeys
    /\ \A key \in RecordKeys : v.members[key].type = "str"

\* Line i of the parsed output taken alone, escaped, as JSON.
LineAlone(i) ==
    JsonLoads(<<"[">> \o EscapeChanges(LogEntry(call.entries[i])) \o <<"]">>)

\* Line i is a well-formed record after escaping.
WellFormedLine(i) ==
    /\ LineAlone(i).exc = "none"
    /\ Len(LineAlone(i).value) = 1
    /\ IsRecord(LineAlone(i).value[1])

\* The character-level parsing agrees with ChangesAsJson, which the change
\* lists of the repositories are made with, on logs whose fields hold
\* letters only.
ChangesAsJsonAgree ==
    (/\ pc = "parse"
     /\ \A i \in 1 .. Len(call.entries) :
           call.entries[i].message = <<"fix", "it">>) =>
        /\ exc = "none"
        /\ [i \in 1 .. Len(call.value) |->
              [key \in {"hash", "author", "date", "message"} |->
                  call.value[i].members[<<key>>].text]]
           = ChangesAsJson([i \in 1 .. Len(call.entries) |->
                 <<call.entries[i].hash, call.entries[i].author,
                   call.entries[i].date, call.entries[i].message>>])

\* C18: _changes_as_json gives one record for each line of the log, in the
\* order of the lines, each with hash, author, date and message; and when a
\* line is no well-formed record after escaping it raises and gives no list.
C18_OneRecordPerLine ==
    pc = "parse" =>
        IF \A i \in 1 .. Len(call.entries) : WellFormedLine(i)
        THEN /\ exc = "none"
             /\ Len(call.value) = Len(call.entries)
             /\ \A i \in 1 .. Len(call.value) :
                   call.value[i] = LineAlone(i).value[1]
        ELSE /\ exc = "ValueError"
             /\ call.value = << >>

\* The URL fields of an enhanced record of the handle h.
OwnUrlOf(h, change) == IF h.kind = "git" THEN change.git_url ELSE change.hg_url

MirrorUrlOf(h, change) == IF h.kind = "git" THEN change.hg_url ELSE change.git_url

\* What C19 says of record i apart from the value of its mirror hash: the
\* keys, the own hash, the URLs, and author, date and message as before.
LifecycleAt(i) ==
    LET was == call.before[i]
        now == changes[i]
    IN  /\ DOMAIN now = {"author", "date", "message", "git_hash", "git_url",
                         "hg_hash", "hg_url"}
        /\ OwnHashOf(vcs, now) = was.hash
        /\ OwnUrlOf(vcs, now) = RevisionUrl(vcs.kind, vcs.repository, was.hash)
        /\ MirrorUrlOf(vcs, now) =
              RevisionUrl(OtherCls(vcs.kind), vcs.repository,
                          MirrorHashOf(vcs, now))
        /\ TripleOf(now) = TripleOf(was)

\* C19: after enhance_changes_information has returned, every
\* record has its own hash, URL fields, no key 'hash', its author, date and
\* message, and as mirror hash the hash of a matching commit or 'NO MIRROR',
\* the list as long and in the order it was; after it has raised, no
\* record is changed.
C19_Lifecycle ==
    pc = "enhance" =>
        IF exc = "none"
        THEN /\ Len(changes) = Len(call.before)
             /\ \A i \in 1 .. Len(changes) :
                   /\ LifecycleAt(i)
                   /\ \/ MirrorHashOf(vcs, changes[i]) = NoMirror
                      \/ \E c \in Commits :
                            /\ MirrorHashOf(vcs, changes[i])
                                  = Hash(OtherCls(vcs.kind), c)
                            /\ Hash(OtherCls(vcs.kind), c)[1] \in
                                  {MatchingHash(OtherCls(vcs.kind),
                                       changes[i].author, changes[i].date,
                                       changes[i].message)[j] :
                                   j \in 1 .. Len(MatchingHash(
                                       OtherCls(vcs.kind), changes[i].author,
                                       changes[i].date, changes[i].message))}
        ELSE changes = call.before

\* What does hold of the lifecycle: the same, with as mirror hash the whole
\* output of the counterpart's matching_hash for the record (the hash of the
\* matching commit when there is one, the empty text when there is none, the
\* hashes of all of them when there are several), or 'NO MIRROR' when fake
\* is true.
LifecycleRawMirror ==
    pc = "enhance" =>
        IF exc = "none"
        THEN /\ Len(changes) = Len(call.before)
             /\ \A i \in 1 .. Len(changes) :
                   /\ LifecycleAt(i)
                   /\ MirrorHashOf(vcs, changes[i]) =
                         IF call.fake THEN NoMirror
                         ELSE MatchingHash(OtherCls(vcs.kind),
                                  changes[i].author, changes[i].date,
                                  changes[i].message)
        ELSE changes = call.before

====
